---- MODULE Spec2Model ----
(***************************************************************************)
(* Model of sheet-to-sheet-to-doc.js: the 'Principal' sheet is filtered,   *)
(* transformed and categorised by tag keywords (processData), every        *)
(* category is written to a sheet of its own (createOrClearSheets) and a   *)
(* Google Doc is created per written sheet (createDocsFromSheets).         *)
(*                                                                         *)
(* A text is a sequence of one-character strings, so that trim, split,     *)
(* toLowerCase, toUpperCase and includes are computed character by         *)
(* character.  Sheet names and document names are atoms (TLA+ strings):    *)
(* the script only compares and concatenates them.  Positions are 1-based  *)
(* (JavaScript's are 0-based): data[1] is the header row and the data row  *)
(* the script calls data[i] is data[i + 1] here.                           *)
(***************************************************************************)
EXTENDS Integers, Sequences, FiniteSets, TLC

VARIABLES
  sheets,                      \* the spreadsheet: sheet name -> [exists, values]
  pc,                          \* position of the run
  principalData,               \* principalSheet.getDataRange().getValues()
  i,                           \* processData: the loop index over data rows
  outputData,                  \* processData: sheet name -> rows
  processedRowIndicesBySheet,  \* processData: sheet name -> set of row indices
  ci,                          \* createOrClearSheets: position in the categories
  updatedSheetNames,           \* createOrClearSheets: the names returned
  folder,                      \* createDocsFromSheets: destination folder
  di,                          \* createDocsFromSheets: position in sheetNames
  docs,                        \* documents created by the current run
  ui,                          \* dialogs shown by the current run (alerts, prompt)
  logger,                      \* Logger.log entries of the current run
  before                       \* the spreadsheet as it was when the run started

vars == <<sheets, pc, principalData, i, outputData, processedRowIndicesBySheet,
          ci, updatedSheetNames, folder, di, docs, ui, logger, before>>

\* ---------------------------------------------------------------- bounds
\* Data rows of 'Principal' in the classifier specification.
MaxRows == 2
\* Data rows of 'Principal' in the specification of whole runs.
MaxSourceRows == 2

\* --------------------------------------------------------- configuration
PRINCIPAL_SHEET_NAME == "Principal"
PUBLICABLE_COL_NAME == <<"P", "u", "b", "l", "i", "c", "a", "b", "l", "e">>

RESPUESTA_COL_NAME == <<"R", "e", "s", "p", "u", "e", "s", "t", "a">>

RESPUESTA_ACT_COL_NAME == <<"R", "e", "s", "p", "u", "e", "s", "t", "a", " ", "A", "c", "t", "u", "a", "l", "i", "z", "a", "d", "a">>

ETIQUETA_ORIG_COL_NAME == <<"E", "t", "i", "q", "u", "e", "t", "a", " ", "O", "r", "i", "g", "i", "n", "a", "l">>

ETIQUETA_PROP_COL_NAME == <<"E", "t", "i", "q", "u", "e", "t", "a", " ", "P", "r", "o", "p", "u", "e", "s", "t", "a">>

TAG_SEPARATOR == ";"

EXCLUDED_TAG == <<"S", "e", "d", "e", "s">>

RuleNames == <<"FAQ_Ingresantes", "FAQ_Alumnos_Examen", "FAQ_Tramites_Equivalencias_SAG", "FAQ_Preguntas_frecuentes_generales">>

GROUPING_RULES ==
  [ FAQ_Ingresantes |-> <<<<"I", "n", "g", "r", "e", "s", "o">>,
        <<"I", "n", "g", "r", "e", "s", "a", "n", "t", "e", "s">>,
        <<"A", "r", "t", ".", " ", "7">>,
        <<"I", "n", "s", "c", "r", "i", "p", "c", "i", "ó", "n">>,
        <<"B", "e", "c", "a">>,
        <<"C", "I", "V", "U">>>>,
    FAQ_Alumnos_Examen |-> <<<<"A", "l", "u", "m", "n", "o">>,
        <<"E", "x", "a", "m", "e", "n">>>>,
    FAQ_Tramites_Equivalencias_SAG |-> <<<<"T", "r", "a", "m", "i", "t", "e", "s">>,
        <<"A", "r", "a", "n", "c", "e", "l", "e", "s">>,
        <<"e", "q", "u", "i", "v", "a", "l", "e", "n", "c", "i", "a", "s">>,
        <<"S", "A", "G">>>>,
    FAQ_Preguntas_frecuentes_generales |-> <<<<"O", "f", "e", "r", "t", "a", " ", "A", "c", "a", "d", "é", "m", "i", "c", "a">>,
        <<"P", "o", "s", "t", "g", "r", "a", "d", "o", "s">>,
        <<"C", "u", "r", "s", "o", "s">>,
        <<"F", "A", "Q">>,
        <<"V", "a", "r", "i", "o", "s">>>> ]

\* ------------------------------------------------------------------ texts
EmptyText == << >>

WhiteSpace == {" ", "\t", "\n"}

UpperChars == <<"A", "B", "C", "D", "E", "F", "G", "H", "I", "J", "K", "L", "M", "N", "O", "P", "Q", "R", "S", "T", "U", "V", "W", "X", "Y", "Z", "Ó", "É">>

LowerChars == <<"a", "b", "c", "d", "e", "f", "g", "h", "i", "j", "k", "l", "m", "n", "o", "p", "q", "r", "s", "t", "u", "v", "w", "x", "y", "z", "ó", "é">>

CaseIndex(c, from) == CHOOSE k \in 1..Len(from) : from[k] = c

toLowerChar(c) ==
  IF \E k \in 1..Len(UpperChars) : UpperChars[k] = c
  THEN LowerChars[CaseIndex(c, UpperChars)] ELSE c

toUpperChar(c) ==
  IF \E k \in 1..Len(LowerChars) : LowerChars[k] = c
  THEN UpperChars[CaseIndex(c, LowerChars)] ELSE c

\* String.prototype.toLowerCase / toUpperCase
toLowerCase(s) == [k \in 1..Len(s) |-> toLowerChar(s[k])]

toUpperCase(s) == [k \in 1..Len(s) |-> toUpperChar(s[k])]

RECURSIVE TrimStart(_)
TrimStart(s) ==
  IF s # << >> /\ Head(s) \in WhiteSpace THEN TrimStart(Tail(s)) ELSE s

RECURSIVE TrimEnd(_)
TrimEnd(s) ==
  IF s # << >> /\ s[Len(s)] \in WhiteSpace
  THEN TrimEnd(SubSeq(s, 1, Len(s) - 1)) ELSE s

\* String.prototype.trim
trim(s) == TrimEnd(TrimStart(s))

\* String.prototype.split with a one-character separator: the pieces between
\* the separators, empty pieces included ("" splits into one empty piece).
RECURSIVE SplitFrom(_, _, _, _)
SplitFrom(s, sep, piece, pieces) ==
  IF s = << >> THEN Append(pieces, piece)
  ELSE IF Head(s) = sep THEN SplitFrom(Tail(s), sep, << >>, Append(pieces, piece))
  ELSE SplitFrom(Tail(s), sep, Append(piece, Head(s)), pieces)

split(s, sep) == SplitFrom(s, sep, << >>, << >>)

\* String.prototype.includes
includes(s, part) ==
  \E k \in 0..(Len(s) - Len(part)) : SubSeq(s, k + 1, k + Len(part)) = part

\* ------------------------------------------------------ literal texts
PREGUNTA == <<"P", "r", "e", "g", "u", "n", "t", "a">>

NO == <<"N", "O">>

FolderF1 == <<"F", "1">>

PaddedF1 == <<" ", "F", "1", " ">>

BadId == <<"z", "z">>

RowPool ==
  { <<<<"1">>, <<"S", "I">>, <<"o", "l", "d">>, <<"n", "e", "w", " ", "a", "n", "s", "w", "e", "r">>, <<"B", "e", "c", "a">>, <<>>>>,
    <<<<"2">>, <<"S", "I">>, <<"o", "l", "d">>, <<" ", "n", "e", "w", " ">>, <<"I", "n", "g", "r", "e", "s", "o", ";", "S", "e", "d", "e", "s">>, <<>>>>,
    <<<<"3">>, <<" ", "n", "o", " ">>, <<"o", "l", "d">>, <<>>, <<"B", "e", "c", "a">>, <<>>>>,
    <<<<"4">>, <<"S", "I">>, <<"o", "l", "d">>, <<>>, <<" ", "s", "e", "d", "e", "s", " ">>, <<>>>>,
    <<<<"5">>, <<"S", "I">>, <<"o", "l", "d">>, <<>>, <<"B", "e", "c", "a">>, <<"S", "e", "d", "e", "s">>>>,
    <<<<"6">>, <<>>, <<"o", "l", "d">>, <<>>, <<"S", "e", "d", "e", "s">>, <<" ", "A", "l", "u", "m", "n", "o", "s", " ", ";", " ", "v", "a", "r", "i", "o", "s", " ", "t", "e", "m", "a", "s", " ">>>>,
    <<<<"7">>, <<"S", "I">>, <<"o", "l", "d">>, <<>>, <<"i", "n", "g", "r", "e", "s", "o", ";", "i", "n", "g", "r", "e", "s", "a", "n", "t", "e", "s">>, <<" ">>>>,
    <<<<"8">>, <<"S", "I">>, <<"o", "l", "d">>, <<>>, <<" ", ";", " ">>, <<>>>>,
    <<<<"9">>, <<"S", "I">>, <<"o", "l", "d">>, <<>>, <<"x", "y", "z">>, <<>>>>,
    <<<<"1", "0">>, <<"S", "i">>, <<"o", "l", "d">>, <<>>, <<"i", "n", "s", "c", "r", "i", "p", "c", "i", "ó", "n", " ", "a", "b", "i", "e", "r", "t", "a", ";", "v", "a", "r", "i", "o", "s", " ", "t", "e", "m", "a", "s">>, <<>>>>,
    <<<<"1", "1">>, <<"N", "O">>, <<"o", "l", "d">>, <<"x">>, <<"E", "x", "a", "m", "e", "n">>, <<>>>>,
    <<<<"1", "2">>, <<"S", "I">>, <<"o", "l", "d">>, <<" ">>, <<>>, <<"S", "A", "G", ";", "b", "e", "c", "a">>>> }

SourceRow1 == <<<<"1">>, <<"S", "I">>, <<"o", "l", "d">>, <<"n", "e", "w", " ", "a", "n", "s", "w", "e", "r">>, <<"B", "e", "c", "a">>, <<>>>>

SourceRow2 == <<<<"2">>, <<"s", "i">>, <<"o", "l", "d">>, <<" ", "n", "e", "w", " ">>, <<"S", "e", "d", "e", "s">>, <<" ", "A", "l", "u", "m", "n", "o", " ">>>>

SourceRow3 == <<<<"3">>, <<" ", "n", "o", " ">>, <<"o", "l", "d">>, <<>>, <<"E", "x", "a", "m", "e", "n">>, <<>>>>

SourceRowPool == {SourceRow1, SourceRow2}

\* ------------------------------------------------------------ the classifier
\* findColumnHeaders: trimmed header -> its position; a later column of the
\* same trimmed name overwrites an earlier one.
findColumnHeaders(headers) ==
  LET names == {trim(headers[k]) : k \in 1..Len(headers)}
  IN  [n \in names |->
         CHOOSE k \in 1..Len(headers) :
           /\ trim(headers[k]) = n
           /\ \A j \in (k + 1)..Len(headers) : trim(headers[j]) # n]

requiredCols ==
  <<PUBLICABLE_COL_NAME, RESPUESTA_COL_NAME, RESPUESTA_ACT_COL_NAME,
    ETIQUETA_ORIG_COL_NAME, ETIQUETA_PROP_COL_NAME>>

\* line 112 without its trim(): the cell is compared as typed
publicableValueAsTyped(rowData, colIndices) ==
  toUpperCase(rowData[colIndices[PUBLICABLE_COL_NAME]])

\* line 112
publicableValue(rowData, colIndices) ==
  toUpperCase(trim(rowData[colIndices[PUBLICABLE_COL_NAME]]))

\* lines 119-122 without the test of line 120: the answer is overwritten even
\* by a blank updated answer
OverwriteRespuestaAlways(rowData, colIndices) ==
  [rowData EXCEPT ![colIndices[RESPUESTA_COL_NAME]] =
     trim(rowData[colIndices[RESPUESTA_ACT_COL_NAME]])]

\* lines 119-122
TransformRespuesta(rowData, colIndices) ==
  LET respuestaActualizada == trim(rowData[colIndices[RESPUESTA_ACT_COL_NAME]])
  IN  IF respuestaActualizada # EmptyText
      THEN [rowData EXCEPT ![colIndices[RESPUESTA_COL_NAME]] = respuestaActualizada]
      ELSE rowData

\* lines 124-127
TransformEtiqueta(rowData, colIndices) ==
  LET etiquetaPropuesta == trim(rowData[colIndices[ETIQUETA_PROP_COL_NAME]])
  IN  IF etiquetaPropuesta # EmptyText
      THEN [rowData EXCEPT ![colIndices[ETIQUETA_ORIG_COL_NAME]] = etiquetaPropuesta]
      ELSE rowData

\* the row copy after both transformations
TransformRow(originalRow, colIndices) ==
  TransformEtiqueta(TransformRespuesta(originalRow, colIndices), colIndices)

\* line 130
finalEtiquetaString(rowData, colIndices) ==
  trim(rowData[colIndices[ETIQUETA_ORIG_COL_NAME]])

\* line 131
IsExcludedTag(etiqueta) == toLowerCase(etiqueta) = toLowerCase(EXCLUDED_TAG)

NonEmpty(tag) == tag # EmptyText

\* lines 137-140
ParseTags(etiqueta) ==
  LET pieces == split(etiqueta, TAG_SEPARATOR)
  IN  SelectSeq([k \in 1..Len(pieces) |-> toLowerCase(trim(pieces[k]))], NonEmpty)

\* lines 149-158 with === in the place of includes(): a tag has to be a
\* keyword
matchFoundWholeTag(sheetName, tags) ==
  LET rule == GROUPING_RULES[sheetName]
      keywords == [k \in 1..Len(rule) |-> toLowerCase(rule[k])]
  IN  \E t \in 1..Len(tags) : \E k \in 1..Len(keywords) : tags[t] = keywords[k]

\* lines 149-158: some tag contains some lower-cased keyword of the rule
matchFound(sheetName, tags) ==
  LET rule == GROUPING_RULES[sheetName]
      keywords == [k \in 1..Len(rule) |-> toLowerCase(rule[k])]
  IN  \E t \in 1..Len(tags) : \E k \in 1..Len(keywords) :
        includes(tags[t], keywords[k])

\* Array.prototype.unshift in the place of push
Unshift(rows, rowData) == <<rowData>> \o rows

\* Array.prototype.push
Push(rows, rowData) == Append(rows, rowData)

\* lines 95-102
EmptyOutput == [sheetName \in DOMAIN GROUPING_RULES |-> << >>]

EmptyProcessed == [sheetName \in DOMAIN GROUPING_RULES |-> {}]

\* One iteration of the loop of lines 107-166 on data row idx; st holds
\* outputData and processedRowIndicesBySheet.
ProcessRow(st, data, colIndices, idx) ==
  LET originalRow == data[idx + 1]
      rowData == TransformRow(originalRow, colIndices)
      etiqueta == finalEtiquetaString(rowData, colIndices)
      tags == ParseTags(etiqueta)
      \* line 161, for every rule
      adds == {sheetName \in DOMAIN GROUPING_RULES :
                 /\ matchFound(sheetName, tags)
                 /\ idx \notin st.processed[sheetName]}
  IN  IF publicableValue(originalRow, colIndices) = NO THEN st
      ELSE IF IsExcludedTag(etiqueta) THEN st
      ELSE IF tags = << >> THEN st
      ELSE [ outputData |->
               [sheetName \in DOMAIN GROUPING_RULES |->
                  IF sheetName \in adds
                  THEN Push(st.outputData[sheetName], rowData)
                  ELSE st.outputData[sheetName]],
             processed |->
               [sheetName \in DOMAIN GROUPING_RULES |->
                  IF sheetName \in adds
                  THEN st.processed[sheetName] \cup {idx}
                  ELSE st.processed[sheetName]] ]

\* ------------------------------------------------------- the spreadsheet
SheetNames == {PRINCIPAL_SHEET_NAME} \cup DOMAIN GROUPING_RULES

\* a name ss.getSheetByName answers null for
NoSheet == [exists |-> FALSE, values |-> << >>]

\* ss.insertSheet: a new sheet has no contents
insertSheet == [exists |-> TRUE, values |-> << >>]

\* sheet.getDataRange().getValues(): an empty sheet answers one empty cell
getValues(sheet) ==
  IF sheet.values = << >> THEN << <<EmptyText>> >> ELSE sheet.values

\* a clearContents() that leaves the cells as they are
keepContents(sheet) == sheet

\* sheet.clearContents()
clearContents(sheet) == [sheet EXCEPT !.values = << >>]

\* range.setValues: rows are written from row `first` on, over what is there;
\* cells outside the range keep their contents
setValues(values, first, rows) ==
  LET last == first + Len(rows) - 1
      height == IF Len(values) > last THEN Len(values) ELSE last
      Old(r) == IF r <= Len(values) THEN values[r] ELSE << >>
  IN  [r \in 1..height |->
         IF r \in first..last
         THEN rows[r - first + 1]
              \o SubSeq(Old(r), Len(rows[r - first + 1]) + 1, Len(Old(r)))
         ELSE Old(r)]

\* sheet.getLastRow(): the last row that has content, 0 when there is none
getLastRow(sheet) ==
  LET HasContent(r) ==
        \E c \in 1..Len(sheet.values[r]) : sheet.values[r][c] # EmptyText
      withContent == {r \in 1..Len(sheet.values) : HasContent(r)}
  IN  IF withContent = {} THEN 0
      ELSE CHOOSE r \in withContent : \A q \in withContent : q <= r

\* lines 183-196: the sheet of a category that has rows
WriteCategory(sheet, headers, dataRows) ==
  LET targetSheet == IF sheet.exists THEN clearContents(sheet) ELSE insertSheet
  IN  [targetSheet EXCEPT
         !.values = setValues(setValues(@, 1, <<headers>>), 2, dataRows)]

\* lines 204-210: the sheet of a category that has no rows
ClearCategory(sheet) == IF sheet.exists THEN clearContents(sheet) ELSE sheet

\* line 182 with >= in the place of >
HasRowsOrNone(dataRows) == Len(dataRows) >= 0

\* line 182
HasRows(dataRows) == Len(dataRows) > 0

\* ------------------------------------------------------------ dialogs, log
Dialog(kind, n, text) == [kind |-> kind, n |-> n, text |-> text]

Log(kind, sheetName) == [kind |-> kind, sheet |-> sheetName]

\* --------------------------------------------------------------- documents
RootFolder == "root"

\* the folders DriveApp.getFolderById finds: id -> folder
DriveFolders == [id \in {FolderF1} |-> "F1"]

docName(sheetName) == "Reporte - " \o sheetName

\* DocumentApp.create: a new document lies in the root folder and is empty
NewDoc(sheetName) ==
  [name |-> docName(sheetName), folder |-> RootFolder, heading |-> "",
   table |-> << >>, saved |-> FALSE]

\* the places of the try block of lines 260-284 where a call can throw
FailPoints == {"create", "appendTable"}

\* lines 262-282, up to the call that throws (if any); << >> when
\* DocumentApp.create itself throws
DocsAfter(sheetName, data, dest, fail) ==
  LET created == NewDoc(sheetName)
      moved == [created EXCEPT !.folder = dest]
      headed == [moved EXCEPT !.heading = sheetName]
      done == [headed EXCEPT !.table = data, !.saved = TRUE]
  IN  IF fail = "create" THEN << >>
      ELSE IF fail = "appendTable" THEN <<headed>>
      ELSE <<done>>

\* a failure that leaves the forEach: the try block around the loop
PcAfterDocAbort(fail, position, count) ==
  IF fail = "none" /\ position < count THEN "export" ELSE "summary"

\* the forEach of line 250 goes on with the next name whether or not the
\* try block threw
PcAfterDoc(fail, position, count) ==
  IF position < count THEN "export" ELSE "summary"

\* line 246 without its return
PcAfterPromptGoOn(button) == "export"

\* lines 228-247: OK goes on to the documents, anything else returns
PcAfterPrompt(button) == IF button = "OK" THEN "export" ELSE "summary"

\* line 40 with < 1 in the place of < 2
HasAnyRow(data) == Len(data) >= 1

\* lines 40, 53-58
HasDataRows(data) == Len(data) >= 2

MissingCols(headers) ==
  LET colIndices == findColumnHeaders(headers)
  IN  SelectSeq(requiredCols, LAMBDA colName : colName \notin DOMAIN colIndices)

\* ------------------------------------------------------------------ inputs
HeaderRow ==
  <<PREGUNTA, PUBLICABLE_COL_NAME, RESPUESTA_COL_NAME, RESPUESTA_ACT_COL_NAME,
    ETIQUETA_ORIG_COL_NAME, ETIQUETA_PROP_COL_NAME>>

\* the same headers typed with blanks around them
PaddedHeaderRow == [k \in 1..Len(HeaderRow) |-> <<" ">> \o HeaderRow[k] \o <<" ">>]

\* the headers with one column named otherwise
HeaderWithout(colName) ==
  [k \in 1..Len(HeaderRow) |-> IF HeaderRow[k] = colName THEN PREGUNTA ELSE HeaderRow[k]]

RowSeqs(pool, n) == UNION {[1..k -> pool] : k \in 1..n}

Table(headers, rows) == [exists |-> TRUE, values |-> <<headers>> \o rows]

\* 'Principal' as the classifier specification draws it
ClassifierTables ==
  {Table(h, rows) : h \in {HeaderRow, PaddedHeaderRow}, rows \in RowSeqs(RowPool, MaxRows)}

\* 'Principal' as a run may find it
PrincipalChoices ==
  {NoSheet, insertSheet, Table(HeaderRow, << >>)}
    \cup {Table(HeaderWithout(requiredCols[k]), <<SourceRow1>>) :
            k \in 1..Len(requiredCols)}
    \cup {Table(HeaderRow, rows) : rows \in RowSeqs(SourceRowPool, MaxSourceRows)}
    \cup {Table(HeaderRow, <<SourceRow3>>), Table(HeaderRow, <<SourceRow3, SourceRow1>>)}
    \cup {Table(PaddedHeaderRow, <<SourceRow1>>)}

\* what the user answers to the folder prompt: the button and the text
PromptResponses ==
  {<<"CANCEL", EmptyText>>, <<"OK", EmptyText>>, <<"OK", PaddedF1>>, <<"OK", BadId>>}

\* ------------------------------------------------------------------ actions
headersOf(data) == data[1]

Init ==
  /\ sheets = [n \in SheetNames |-> NoSheet]
  /\ pc = "idle"
  /\ principalData = << >>
  /\ i = 1
  /\ outputData = EmptyOutput
  /\ processedRowIndicesBySheet = EmptyProcessed
  /\ ci = 1
  /\ updatedSheetNames = << >>
  /\ folder = "null"
  /\ di = 1
  /\ docs = << >>
  /\ ui = << >>
  /\ logger = << >>
  /\ before = [n \in SheetNames |-> NoSheet]

\* line 30: the user starts a run on 'Principal' as it now is (p); nothing of
\* an earlier run is left in the run's variables
Start(p) ==
  /\ pc \in {"idle", "done"}
  /\ sheets' = [sheets EXCEPT ![PRINCIPAL_SHEET_NAME] = p]
  /\ before' = sheets
  /\ pc' = "start"
  /\ principalData' = << >>
  /\ i' = 1
  /\ outputData' = EmptyOutput
  /\ processedRowIndicesBySheet' = EmptyProcessed
  /\ ci' = 1
  /\ updatedSheetNames' = << >>
  /\ folder' = "null"
  /\ di' = 1
  /\ docs' = << >>
  /\ ui' = << >>
  /\ logger' = << >>

\* lines 31-61: the run validates 'Principal' and either stops with an alert
\* or goes on to processData
Validate ==
  /\ pc = "start"
  /\ LET principalSheet == sheets[PRINCIPAL_SHEET_NAME]
         data == getValues(principalSheet)
         missing == MissingCols(headersOf(data))
     IN  IF ~principalSheet.exists
         THEN /\ ui' = <<Dialog("alertNoSheet", 0, EmptyText)>>
              /\ principalData' = principalData
              /\ pc' = "done"
         ELSE /\ principalData' = data
              /\ IF ~HasDataRows(data)
                 THEN /\ ui' = <<Dialog("alertEmpty", 0, EmptyText)>>
                      /\ pc' = "done"
                 ELSE IF missing # << >>
                 THEN /\ ui' = <<Dialog("alertMissingColumn", 0, missing[1])>>
                      /\ pc' = "done"
                 ELSE /\ ui' = ui
                      /\ pc' = "classify"
  /\ UNCHANGED <<sheets, i, outputData, processedRowIndicesBySheet, ci,
                 updatedSheetNames, folder, di, docs, logger, before>>

\* lines 107-166: one iteration of processData's loop
ClassifyRow ==
  /\ pc = "classify"
  /\ i < Len(principalData)
  /\ LET st == ProcessRow([outputData |-> outputData,
                           processed |-> processedRowIndicesBySheet],
                          principalData,
                          findColumnHeaders(headersOf(principalData)), i)
     IN  /\ outputData' = st.outputData
         /\ processedRowIndicesBySheet' = st.processed
  /\ i' = i + 1
  /\ UNCHANGED <<sheets, pc, principalData, ci, updatedSheetNames, folder, di,
                 docs, ui, logger, before>>

\* lines 107, 167, 64: the loop ends, processData returns, createOrClearSheets
\* begins
ClassifyDone ==
  /\ pc = "classify"
  /\ ~(i < Len(principalData))
  /\ pc' = "materialize"
  /\ ci' = 1
  /\ UNCHANGED <<sheets, principalData, i, outputData, processedRowIndicesBySheet,
                 updatedSheetNames, folder, di, docs, ui, logger, before>>

\* lines 179-212: one iteration of createOrClearSheets' loop; after the last
\* one, line 67 chooses between the documents and the closing alert
Materialize ==
  /\ pc = "materialize"
  /\ ci <= Len(RuleNames)
  /\ LET sheetName == RuleNames[ci]
         dataRows == outputData[sheetName]
         sheet == sheets[sheetName]
     IN  IF HasRows(dataRows)
         THEN /\ sheets' = [sheets EXCEPT ![sheetName] =
                              WriteCategory(sheet, headersOf(principalData), dataRows)]
              /\ logger' = Append(logger,
                             Log(IF sheet.exists THEN "limpiada" ELSE "creada", sheetName))
              /\ updatedSheetNames' = Append(updatedSheetNames, sheetName)
         ELSE /\ sheets' = [sheets EXCEPT ![sheetName] = ClearCategory(sheet)]
              /\ logger' = IF sheet.exists
                           THEN Append(logger, Log("limpiada por estar vacia", sheetName))
                           ELSE logger
              /\ updatedSheetNames' = updatedSheetNames
  /\ ci' = ci + 1
  /\ pc' = IF ci < Len(RuleNames) THEN "materialize"
           ELSE IF Len(updatedSheetNames') > 0 THEN "prompt" ELSE "summary"
  /\ UNCHANGED <<principalData, i, outputData, processedRowIndicesBySheet, folder,
                 di, docs, ui, before>>

\* lines 222-247: the folder prompt and the choice of the folder
Prompt(response) ==
  /\ pc = "prompt"
  /\ LET button == response[1]
         folderId == trim(response[2])
         found == folderId \in DOMAIN DriveFolders
     IN  /\ IF button = "OK"
            THEN IF folderId # EmptyText
                 THEN IF found
                      THEN /\ folder' = DriveFolders[folderId]
                           /\ ui' = Append(ui, Dialog("prompt", 0, EmptyText))
                           /\ logger' = Append(logger, Log("carpeta", DriveFolders[folderId]))
                      ELSE /\ folder' = RootFolder
                           /\ ui' = ui \o <<Dialog("prompt", 0, EmptyText),
                                            Dialog("alertFolderFallback", 0, folderId)>>
                           /\ logger' = Append(logger, Log("error carpeta", RootFolder))
                 ELSE /\ folder' = RootFolder
                      /\ ui' = Append(ui, Dialog("prompt", 0, EmptyText))
                      /\ logger' = Append(logger, Log("raiz", RootFolder))
            ELSE /\ folder' = folder
                 /\ ui' = ui \o <<Dialog("prompt", 0, EmptyText),
                                  Dialog("alertCancelled", 0, EmptyText)>>
                 /\ logger' = Append(logger, Log("cancelada", ""))
         /\ pc' = PcAfterPrompt(button)
  /\ di' = 1
  /\ UNCHANGED <<sheets, principalData, i, outputData, processedRowIndicesBySheet,
                 ci, updatedSheetNames, docs, before>>

\* lines 250-290: one iteration of the forEach over the sheet names; fail is
\* the call of the try block that throws, "none" when none does
ExportDoc(fail) ==
  /\ pc = "export"
  /\ di <= Len(updatedSheetNames)
  /\ LET sheetName == updatedSheetNames[di]
         sheet == sheets[sheetName]
     IN  IF ~sheet.exists \/ getLastRow(sheet) <= 1
         THEN /\ fail = "none"
              /\ docs' = docs
              /\ logger' = Append(logger, Log("omitida", sheetName))
         ELSE /\ docs' = docs \o DocsAfter(sheetName, getValues(sheet), folder, fail)
              /\ logger' = Append(logger,
                             Log(IF fail = "none" THEN "documento creado"
                                 ELSE "error documento", sheetName))
  /\ di' = di + 1
  /\ pc' = PcAfterDoc(fail, di, Len(updatedSheetNames))
  /\ UNCHANGED <<sheets, principalData, i, outputData, processedRowIndicesBySheet,
                 ci, updatedSheetNames, folder, ui, before>>

\* lines 67-72: the closing alert
Summary ==
  /\ pc = "summary"
  /\ ui' = Append(ui, IF Len(updatedSheetNames) > 0
                      THEN Dialog("alertCompleted", Len(updatedSheetNames), EmptyText)
                      ELSE Dialog("alertNoNewSheets", 0, EmptyText))
  /\ pc' = "done"
  /\ UNCHANGED <<sheets, principalData, i, outputData, processedRowIndicesBySheet,
                 ci, updatedSheetNames, folder, di, docs, logger, before>>

Next ==
  \/ \E p \in PrincipalChoices : Start(p)
  \/ Validate
  \/ ClassifyRow
  \/ ClassifyDone
  \/ Materialize
  \/ \E response \in PromptResponses : Prompt(response)
  \/ \E fail \in FailPoints \cup {"none"} : ExportDoc(fail)
  \/ Summary

Spec == Init /\ [][Next]_vars

\* The classifier alone: 'Principal' is drawn from ClassifierTables (all of
\* them pass the validation of lines 34-58) and processData runs on it.
InitClassify ==
  /\ \E p \in ClassifierTables :
       /\ sheets = [n \in SheetNames |-> IF n = PRINCIPAL_SHEET_NAME THEN p ELSE NoSheet]
       /\ principalData = getValues(p)
  /\ pc = "classify"
  /\ i = 1
  /\ outputData = EmptyOutput
  /\ processedRowIndicesBySheet = EmptyProcessed
  /\ ci = 1
  /\ updatedSheetNames = << >>
  /\ folder = "null"
  /\ di = 1
  /\ docs = << >>
  /\ ui = << >>
  /\ logger = << >>
  /\ before = [n \in SheetNames |-> NoSheet]

NextClassify == ClassifyRow \/ ClassifyDone

SpecClassify == InitClassify /\ [][NextClassify]_vars

\* ==================================================================
\* Properties of the classifier (checked under SpecClassify)
\* ==================================================================
colIdx == findColumnHeaders(headersOf(principalData))

\* the data rows processData has already been through
Classified == IF pc = "classify" THEN 1..(i - 1) ELSE 1..(Len(principalData) - 1)

SourceRow(idx) == principalData[idx + 1]

Cell(idx, colName) == SourceRow(idx)[colIdx[colName]]

\* the final tag string: the proposed tag when it is not blank, else the
\* original tag, trimmed
TagString(idx) ==
  IF trim(Cell(idx, ETIQUETA_PROP_COL_NAME)) # EmptyText
  THEN trim(Cell(idx, ETIQUETA_PROP_COL_NAME))
  ELSE trim(Cell(idx, ETIQUETA_ORIG_COL_NAME))

\* the non-empty trimmed lower-cased pieces of the final tag string
TagsOf(idx) ==
  LET pieces == split(TagString(idx), TAG_SEPARATOR)
  IN  {toLowerCase(trim(pieces[k])) : k \in 1..Len(pieces)} \ {EmptyText}

NotPublishable(idx) == toUpperCase(trim(Cell(idx, PUBLICABLE_COL_NAME))) = NO

OnlyExcludedTag(idx) == toLowerCase(TagString(idx)) = toLowerCase(EXCLUDED_TAG)

Excluded(idx) == NotPublishable(idx) \/ OnlyExcludedTag(idx) \/ TagsOf(idx) = {}

KeywordHit(sheetName, idx) ==
  \E tag \in TagsOf(idx) : \E k \in 1..Len(GROUPING_RULES[sheetName]) :
    includes(tag, toLowerCase(GROUPING_RULES[sheetName][k]))

\* the row a bucket is to hold for data row idx: the source row with the
\* answer and the original tag overwritten by the trimmed non-blank updated
\* answer and proposed tag
ExpectedRow(idx) ==
  [c \in 1..Len(SourceRow(idx)) |->
     IF /\ c = colIdx[RESPUESTA_COL_NAME]
        /\ trim(Cell(idx, RESPUESTA_ACT_COL_NAME)) # EmptyText
     THEN trim(Cell(idx, RESPUESTA_ACT_COL_NAME))
     ELSE IF /\ c = colIdx[ETIQUETA_ORIG_COL_NAME]
             /\ trim(Cell(idx, ETIQUETA_PROP_COL_NAME)) # EmptyText
     THEN trim(Cell(idx, ETIQUETA_PROP_COL_NAME))
     ELSE SourceRow(idx)[c]]

\* the same with the updated answer and the proposed tag copied as they are
UntrimmedRow(idx) ==
  [c \in 1..Len(SourceRow(idx)) |->
     IF /\ c = colIdx[RESPUESTA_COL_NAME]
        /\ trim(Cell(idx, RESPUESTA_ACT_COL_NAME)) # EmptyText
     THEN Cell(idx, RESPUESTA_ACT_COL_NAME)
     ELSE IF /\ c = colIdx[ETIQUETA_ORIG_COL_NAME]
             /\ trim(Cell(idx, ETIQUETA_PROP_COL_NAME)) # EmptyText
     THEN Cell(idx, ETIQUETA_PROP_COL_NAME)
     ELSE SourceRow(idx)[c]]

Holds(sheetName, row) ==
  \E k \in 1..Len(outputData[sheetName]) : outputData[sheetName][k] = row

\* the k-th smallest element of a set of numbers
Nth(S, k) == CHOOSE x \in S : Cardinality({y \in S : y < x}) = k - 1

\* C1: a data row that is not excluded is in the bucket of a category if and
\* only if one of its tags (those of the proposed tag when it is not blank,
\* else of the original tag) contains one of the category's keywords, for
\* every category on its own.
C1_BucketIffKeywordHit ==
  \A idx \in Classified : \A sheetName \in DOMAIN GROUPING_RULES :
    ~Excluded(idx) =>
      IF KeywordHit(sheetName, idx)
      THEN /\ idx \in processedRowIndicesBySheet[sheetName]
           /\ Holds(sheetName, ExpectedRow(idx))
      ELSE /\ idx \notin processedRowIndicesBySheet[sheetName]
           /\ ~Holds(sheetName, ExpectedRow(idx))

\* a row with the excluded tag among several tags lies in a bucket, and a row
\* whose proposed tag replaces an excluded original tag lies in two buckets
C1_Witness ==
  /\ pc = "materialize"
  /\ \E idx \in Classified :
       /\ includes(toLowerCase(TagString(idx)), toLowerCase(EXCLUDED_TAG))
       /\ \E sheetName \in DOMAIN GROUPING_RULES :
            idx \in processedRowIndicesBySheet[sheetName]
  /\ \E idx \in Classified :
       /\ trim(Cell(idx, ETIQUETA_PROP_COL_NAME)) # EmptyText
       /\ IsExcludedTag(trim(Cell(idx, ETIQUETA_ORIG_COL_NAME)))
       /\ Cardinality({sheetName \in DOMAIN GROUPING_RULES :
                         idx \in processedRowIndicesBySheet[sheetName]}) >= 2

\* C2: a data row that is not publishable, whose final tag string is the
\* excluded tag, or that has no tag left after splitting, is in no bucket.
C2_ExcludedRowInNoBucket ==
  \A idx \in Classified : \A sheetName \in DOMAIN GROUPING_RULES :
    Excluded(idx) =>
      /\ idx \notin processedRowIndicesBySheet[sheetName]
      /\ ~Holds(sheetName, ExpectedRow(idx))

\* a table of a row that is not publishable although its tag has a keyword,
\* and of a row whose final tag is the excluded one
C2_Witness ==
  /\ pc = "materialize"
  /\ \E idx \in Classified :
       /\ NotPublishable(idx)
       /\ Cell(idx, PUBLICABLE_COL_NAME) # NO
       /\ \E sheetName \in DOMAIN GROUPING_RULES : KeywordHit(sheetName, idx)
  /\ \E idx \in Classified : ~NotPublishable(idx) /\ OnlyExcludedTag(idx)

\* C3: every bucket holds each of its source rows once, in the order of the
\* source table: its k-th row is the copy of the k-th smallest row index
\* recorded for the category.
C3_BucketInSourceOrder ==
  \A sheetName \in DOMAIN GROUPING_RULES :
    /\ processedRowIndicesBySheet[sheetName] \subseteq Classified
    /\ Len(outputData[sheetName]) = Cardinality(processedRowIndicesBySheet[sheetName])
    /\ \A k \in 1..Len(outputData[sheetName]) :
         outputData[sheetName][k] =
           TransformRow(SourceRow(Nth(processedRowIndicesBySheet[sheetName], k)), colIdx)

\* a bucket of two different rows, one of which has two tags that both match
\* keywords of the category
C3_Witness ==
  /\ pc = "materialize"
  /\ \E sheetName \in DOMAIN GROUPING_RULES :
       /\ Len(outputData[sheetName]) = 2
       /\ outputData[sheetName][1] # outputData[sheetName][2]
       /\ \E idx \in processedRowIndicesBySheet[sheetName] :
            Cardinality({tag \in TagsOf(idx) :
              \E k \in 1..Len(GROUPING_RULES[sheetName]) :
                includes(tag, toLowerCase(GROUPING_RULES[sheetName][k]))}) >= 2

\* C4 as stated: a bucketed row is its source row with the answer replaced
\* by the updated-answer value and the original tag by the proposed-tag
\* value, when these are not blank.
C4_AsStated ==
  \A sheetName \in DOMAIN GROUPING_RULES : \A k \in 1..Len(outputData[sheetName]) :
    outputData[sheetName][k] =
      UntrimmedRow(Nth(processedRowIndicesBySheet[sheetName], k))

\* C4 amended: a bucketed row is its source row with the answer replaced by
\* the trimmed updated answer and the original tag by the trimmed proposed
\* tag, when these are not blank; every other column is the source's.
C4_BucketRowIsTrimmedOverride ==
  \A sheetName \in DOMAIN GROUPING_RULES : \A k \in 1..Len(outputData[sheetName]) :
    outputData[sheetName][k] =
      ExpectedRow(Nth(processedRowIndicesBySheet[sheetName], k))

\* a bucketed row whose updated answer is written with blanks around it, and
\* one whose proposed tag is
C4_Witness ==
  /\ pc = "materialize"
  /\ \E sheetName \in DOMAIN GROUPING_RULES :
       \E idx \in processedRowIndicesBySheet[sheetName] :
         /\ trim(Cell(idx, RESPUESTA_ACT_COL_NAME)) # EmptyText
         /\ trim(Cell(idx, RESPUESTA_ACT_COL_NAME)) # Cell(idx, RESPUESTA_ACT_COL_NAME)
  /\ \E sheetName \in DOMAIN GROUPING_RULES :
       \E idx \in processedRowIndicesBySheet[sheetName] :
         /\ trim(Cell(idx, ETIQUETA_PROP_COL_NAME)) # EmptyText
         /\ trim(Cell(idx, ETIQUETA_PROP_COL_NAME)) # Cell(idx, ETIQUETA_PROP_COL_NAME)

\* ==================================================================
\* Properties of whole runs (checked under Spec)
\* ==================================================================
Categories == DOMAIN GROUPING_RULES

Source == sheets[PRINCIPAL_SHEET_NAME]

HasDialog(kind) == \E k \in 1..Len(ui) : ui[k].kind = kind

\* the fatal conditions: no 'Principal', fewer than two rows in it, or a
\* required column that no header is, blanks around the header aside
Fatal(p) ==
  \/ ~p.exists
  \/ Len(getValues(p)) < 2
  \/ \E k \in 1..Len(requiredCols) :
       \A c \in 1..Len(getValues(p)[1]) : trim(getValues(p)[1][c]) # requiredCols[k]

\* a run has begun on a 'Principal' that passes the validation
RunPassed == pc \notin {"idle", "start"} /\ ~Fatal(Source)

\* the buckets processData returned to the run (categorizedData)
categorizedData == outputData

MaterializationDone == pc \in {"prompt", "export", "summary", "done"}

\* C5: the list createOrClearSheets returns holds the categories whose
\* bucket has a row, once each and in the order of GROUPING_RULES; a category
\* whose bucket is empty gets no sheet that was not there before.
C5_ProducedAreNonEmptyBuckets ==
  (RunPassed /\ MaterializationDone) =>
    /\ updatedSheetNames =
         SelectSeq(RuleNames, LAMBDA sheetName : categorizedData[sheetName] # << >>)
    /\ \A sheetName \in Categories :
         categorizedData[sheetName] = << >> =>
           sheets[sheetName].exists = before[sheetName].exists

\* a run that produced the second category alone: the sheet an earlier run
\* wrote for the first one is still there, and the third one has none
C5_Witness ==
  /\ pc = "done"
  /\ RunPassed
  /\ updatedSheetNames = <<RuleNames[2]>>
  /\ sheets[RuleNames[1]].exists
  /\ before[RuleNames[1]].values # << >>
  /\ ~sheets[RuleNames[3]].exists

\* C6: a run on a 'Principal' with a fatal condition ends at once with one
\* alert: no category sheet is created, cleared or written, the folder prompt
\* is not shown and no document is created.
C6_FatalRunTouchesNothing ==
  (pc # "idle" /\ Fatal(Source)) =>
    /\ pc \in {"start", "done"}
    /\ \A sheetName \in Categories : sheets[sheetName] = before[sheetName]
    /\ pc = "done" =>
         /\ Len(ui) = 1
         /\ ui[1].kind \in {"alertNoSheet", "alertEmpty", "alertMissingColumn"}
    /\ ~HasDialog("prompt")
    /\ docs = << >>
    /\ logger = << >>

\* a run stopped by a missing column, over a category sheet that an earlier
\* run wrote
C6_Witness ==
  /\ pc = "done"
  /\ Fatal(Source)
  /\ HasDialog("alertMissingColumn")
  /\ \E sheetName \in Categories : Len(sheets[sheetName].values) >= 2

DocLogKinds == {"omitida", "documento creado", "error documento"}

IsDocLog(entry) == entry.kind \in DocLogKinds

DocLogs == SelectSeq(logger, IsDocLog)

\* the names of updatedSheetNames the forEach has been through
Exported == IF pc = "export" THEN di - 1 ELSE Len(updatedSheetNames)

CompleteDoc(d, sheetName) ==
  /\ d.name = "Reporte - " \o sheetName
  /\ d.heading = sheetName
  /\ d.table = getValues(sheets[sheetName])
  /\ d.saved

\* C7: once the prompt is answered with OK, every produced category is gone
\* through in turn whatever failed before it, and each one whose creation did
\* not fail has its document "Reporte - <category>".
C7_FailureDoesNotStopExport ==
  (RunPassed /\ pc \in {"export", "summary", "done"} /\ folder # "null") =>
    /\ Len(DocLogs) = Exported
    /\ \A k \in 1..Exported :
         /\ DocLogs[k].sheet = updatedSheetNames[k]
         /\ DocLogs[k].kind = "documento creado" =>
              \E d \in 1..Len(docs) : CompleteDoc(docs[d], updatedSheetNames[k])

\* a run whose first document failed and whose second one was created
C7_Witness ==
  /\ pc = "done"
  /\ Len(DocLogs) = 2
  /\ DocLogs[1].kind = "error documento"
  /\ DocLogs[2].kind = "documento creado"
  /\ \E d \in 1..Len(docs) : CompleteDoc(docs[d], updatedSheetNames[2])

WrittenTables ==
  Cardinality({sheetName \in Categories :
    \E k \in 1..Len(logger) :
      logger[k].sheet = sheetName /\ logger[k].kind \in {"creada", "limpiada"}})

\* C8 as stated: the closing alert of a run that passed the validation tells
\* how many category sheets and documents the run produced: N > 0 sheets
\* written and N documents created, or none.
C8_SummaryCountsSheetsAndDocs ==
  (pc = "done" /\ RunPassed) =>
    IF ui[Len(ui)].kind = "alertCompleted"
    THEN /\ ui[Len(ui)].n > 0
         /\ WrittenTables = ui[Len(ui)].n
         /\ Len(docs) = ui[Len(ui)].n
    ELSE /\ ui[Len(ui)].kind = "alertNoNewSheets"
         /\ WrittenTables = 0
         /\ docs = << >>

\* every produced category has its sheet: the header row and the bucket
TablesWritten ==
  \A k \in 1..Len(updatedSheetNames) :
    sheets[updatedSheetNames[k]] =
      [exists |-> TRUE,
       values |-> <<headersOf(principalData)>> \o categorizedData[updatedSheetNames[k]]]

\* C9: the prompt is shown only once createOrClearSheets has returned, and a
\* cancelled prompt leaves the run without documents and with every sheet it
\* wrote as it wrote it.
C9_CancelStopsOnlyExport ==
  /\ HasDialog("prompt") => (MaterializationDone /\ pc # "prompt" /\ TablesWritten)
  /\ pc \in {"classify", "materialize", "prompt"} => ~HasDialog("prompt")
  /\ HasDialog("alertCancelled") =>
       /\ pc \in {"summary", "done"}
       /\ docs = << >>
       /\ Len(updatedSheetNames) > 0
       /\ TablesWritten

\* a cancelled run that had written two sheets
C9_Witness ==
  /\ pc = "done"
  /\ HasDialog("alertCancelled")
  /\ Len(updatedSheetNames) = 2
  /\ TablesWritten

\* C10: after a run that passed the validation, the sheet of a category whose
\* bucket has rows holds the header row and these rows and nothing else, and
\* the sheet of a category whose bucket is empty is as it was, without its
\* contents; so a run on the 'Principal' of the run before leaves every
\* category sheet as it was.
C10_SheetsReflectLatestRun ==
  (RunPassed /\ MaterializationDone) =>
    /\ \A sheetName \in Categories :
         sheets[sheetName] =
           IF categorizedData[sheetName] # << >>
           THEN [exists |-> TRUE,
                 values |-> <<headersOf(getValues(Source))>> \o categorizedData[sheetName]]
           ELSE [exists |-> before[sheetName].exists, values |-> << >>]
    /\ Source = before[PRINCIPAL_SHEET_NAME] =>
         \A sheetName \in Categories : sheets[sheetName] = before[sheetName]

\* a run that wrote fewer rows to a sheet than the run before had left in it
C10_Witness ==
  /\ pc = "done"
  /\ RunPassed
  /\ \E sheetName \in Categories :
       /\ Len(sheets[sheetName].values) >= 2
       /\ Len(before[sheetName].values) > Len(sheets[sheetName].values)

====
